---- MODULE Spec2Model ----
(***************************************************************************)
(* Classification pipeline kernel of data-governance-service.              *)
(*                                                                         *)
(* Spec          the chunked LLM dispatcher: ClassifyBatch, processChunk,  *)
(*               fixCountMismatch and the merge by _row_index.             *)
(* SpecRecovery  checkpointed execution of one batch: the owning worker,   *)
(*               SaveProgress, worker loss, RecoverLostWork, the chunk     *)
(*               tasks it enqueues and the classifications table.          *)
(* SpecOrder     one batch with a provider that answers each chunk the     *)
(*               same way, under any order of dispatch, arrival and save.  *)
(* SpecDedup     the deduplication service over two batches and the        *)
(*               dedup_hashes table.                                       *)
(* SpecSchema    plain Create and Save on the classifications table.       *)
(* SpecCancel    HandleLLMProcess under a context that can be cancelled.   *)
(* SpecChunks    GenerateChunks of the LLM input generator.                *)
(*                                                                         *)
(* Text values are sequences of one-character strings, so that trimming    *)
(* is computed and not assumed.  Scores are in tenths (-10 is -1.0).       *)
(***************************************************************************)
EXTENDS Integers, Sequences, FiniteSets, Bags, TLC

(***************************************************************************)
(* Bounds of the model.                                                    *)
(***************************************************************************)
\* rows of the uploaded file are numbered 0..MaxRow
MaxRow == 4
\* records per chunk (LLM_DISTRIBUTED_CHUNK_SIZE, 50 by default)
ChunkSize == 2
\* capacity of the semaphore channel (LLM_CONCURRENCY_LIMIT, 3 by default)
ConcurrencyLimit == 2
\* attempts per chunk (LLMConfig.MaxRetries, 3 by default)
MaxRetries == 2

(***************************************************************************)
(* Text helpers.                                                           *)
(***************************************************************************)
isWhitespace(ch) == ch \in {" ", "\t", "\n", "\r"}

RECURSIVE stripLeft(_)
stripLeft(s) ==
    IF s # <<>> /\ isWhitespace(Head(s)) THEN stripLeft(Tail(s)) ELSE s

RECURSIVE stripRight(_)
stripRight(s) ==
    IF s # <<>> /\ isWhitespace(s[Len(s)])
    THEN stripRight(SubSeq(s, 1, Len(s) - 1))
    ELSE s

\* str.strip() of the description key used to match results to inputs
normalizeString(s) == stripRight(stripLeft(s))

\* the primary clean-field text of the file row r
PrimaryTable == << <<"a">>, <<"b">>, <<" ", "a">>, <<"c">>, <<"b", " ">> >>
PrimaryOf(r) == PrimaryTable[(r % Len(PrimaryTable)) + 1]

\* a description no input row carries
ForeignDesc == <<"z">>

NoRow == 0 - 1

Indeterminado == "Indeterminado"

CategoryNames == <<"Pop", "Medios", "Otros", "Publicidad">>
CategoryAt(i) == CategoryNames[((i - 1) % Len(CategoryNames)) + 1]

(***************************************************************************)
(* State of one ClassifyBatch call.                                        *)
(***************************************************************************)
VARIABLES
    input,            \* the records handed to ClassifyBatch, as C3 built them
    records,          \* the records slice ClassifyBatch works on
    chunks,           \* createChunks(records, ChunkSize)
    phase,            \* "new", "dispatching", "merged"
    pc,               \* position of the goroutine of each chunk
    sem,              \* number of tokens in the semaphore channel
    retries,          \* the retries counter of each processChunk call
    calls,            \* provider calls issued for each chunk
    lastFail,         \* kind of the last failed attempt of each chunk
    results,          \* results[idx] of ClassifyBatch
    classifications,  \* the merged output
    batchErr          \* the error ClassifyBatch returns, "" when nil

dvars == << input, records, chunks, phase, pc, sem, retries, calls, lastFail,
            results, classifications, batchErr >>

(***************************************************************************)
(* State of the checkpointed execution of one batch.                       *)
(***************************************************************************)
VARIABLES
    style,        \* how the provider answers a chunk, the same in every run
    cp,           \* the BatchCheckpoint row of the batch
    work,         \* what each worker is doing
    pending,      \* chunk ids of the process:chunk tasks waiting in the queue
    locks,        \* chunk ids whose task holds the asynq.Unique lock
    table,        \* the classifications table
    nextId,       \* next primary key the table hands out
    rpc,          \* position of RecoverLostWork: "idle" or "enqueue"
    rem,          \* remaining chunks RecoverLostWork still has to enqueue
    snapshot,     \* processed_chunks of the checkpoint the pass loaded
    passEnq,      \* chunk ids the current pass enqueued
    passDup,      \* chunk ids the queue refused as duplicates in this pass
    passes,       \* passes of RecoverLostWork started so far
    crashes,      \* losses of workers that held a task
    crashSnap,    \* chunks in processed_chunks when the owner was lost
    taskCount     \* process:chunk tasks the queue created for each chunk id

rvars == << style, cp, work, pending, locks, table, nextId, rpc, rem,
            snapshot, passEnq, passDup, passes, crashes, crashSnap, taskCount >>

(***************************************************************************)
(* State of saving the merged result of a batch.                           *)
(***************************************************************************)
VARIABLES
    saved,        \* indices of the merged classifications already written
    arrival       \* chunk ids in the order their results arrived

ovars == << saved, arrival >>

(***************************************************************************)
(* State of the deduplication service and of the dedup_hashes table.       *)
(***************************************************************************)
VARIABLES
    dconfig,      \* the Config of the deduplication service
    dedupHashes,  \* the rows of dedup_hashes, in insertion order
    drun          \* the Deduplicate call of each batch

uvars == << dconfig, dedupHashes, drun >>

(***************************************************************************)
(* The classifications table as the schema migration creates it, written   *)
(* with plain Create and Save.                                             *)
(***************************************************************************)
VARIABLES
    ctable,       \* the rows of classifications, a bag of rows
    clast         \* the last write: its operation, key and error

cvars == << ctable, clast >>

(***************************************************************************)
(* The context handed to ClassifyBatch.                                    *)
(***************************************************************************)
VARIABLES
    cancelled     \* the context of the task has been cancelled

kvars == << cancelled >>

(***************************************************************************)
(* State of a GenerateChunks call of the LLM input generator.              *)
(***************************************************************************)
VARIABLES
    grecords,     \* the records handed to GenerateChunks
    gconfig,      \* the GeneratorConfig: ChunkSize, FieldsToInclude
    gbatch,       \* the id of the batch the records belong to
    gpc,          \* "idle", "new", "loop", "returned"
    gi,           \* the loop variable i
    gchunks,      \* the chunks slice
    gerr,         \* the error GenerateChunks returns
    nextUuid      \* the next value uuid.New() hands out

gvars == << grecords, gconfig, gbatch, gpc, gi, gchunks, gerr, nextUuid >>

(***************************************************************************)
(* The chunks of the generator on their way to the dispatcher.             *)
(***************************************************************************)
VARIABLES
    vi,           \* how many chunks have been validated
    handed,       \* the chunks handed to the dispatcher
    rejected      \* the chunks rejected, each with the error of ValidateInput

vvars == << vi, handed, rejected >>

(***************************************************************************)
(* A text on its way through the last steps of the v1 refinery pipeline.   *)
(***************************************************************************)
VARIABLES
    rconfig,      \* the RefineryConfig: ToKeep, MinLen
    rin,          \* the words of the text that leaves RemoveWordsFromList
    rtext,        \* the words of the text now
    rstep         \* how many of the steps that follow have run

fvars == << rconfig, rin, rtext, rstep >>

(***************************************************************************)
(* Validation sampling and the iteration tracker of one upload.            *)
(***************************************************************************)
VARIABLES
    sresults,     \* the LLM results: row index -> category and score
    history,      \* per iteration, the original_index of its validations
    sexclude,     \* the exclude-set handed to the sampling strategy
    ssample,      \* the row indices of the sample generated last
    serr,         \* the error of the sampling call
    spc           \* "idle", "started", "sampled", "validated"

svars == << sresults, history, sexclude, ssample, serr, spc >>

(***************************************************************************)
(* The heartbeat of a checkpoint: ages in ticks of time.                   *)
(***************************************************************************)
VARIABLES
    hAlive,       \* the worker process of the owner runs
    hbAge,        \* time since last_heartbeat of the checkpoint was set
    tickAge,      \* time since the heartbeat ticker fired
    chunkAge,     \* time the chunk in progress has taken
    hDone,        \* number of chunks recorded in the checkpoint
    hScan         \* the last scan for stale checkpoints: its finding

hvars == << hAlive, hbAge, tickAge, chunkAge, hDone, hScan >>

\* state of the components around the generator
zvars == << vvars, fvars, svars, hvars >>

\* state of the components that follow the dispatcher, recovery and dedup
xvars == << cvars, kvars, gvars, zvars >>

vars == << dvars, rvars, ovars, uvars, xvars >>

\* what an action of one part of the system leaves alone
notDRO == << uvars, xvars >>
notDvars == << rvars, ovars, notDRO >>
notRvars == << dvars, ovars, notDRO >>
notUvars == << dvars, rvars, ovars, xvars >>
notXvars == << dvars, rvars, ovars, uvars >>
notCvars == << notXvars, kvars, gvars, zvars >>
notGvars == << notXvars, cvars, kvars, zvars >>
notZvars == << notXvars, cvars, kvars, gvars >>
notVvars == << notZvars, fvars, svars, hvars >>
notFvars == << notZvars, vvars, svars, hvars >>
notSvars == << notZvars, vvars, fvars, hvars >>
notHvars == << notZvars, vvars, fvars, svars >>

ChunkIds == DOMAIN chunks

(***************************************************************************)
(* Pure helpers of the dispatcher.                                         *)
(***************************************************************************)
\* the survivor lists a batch can hand to the dispatcher: rows of the file in
\* file order, dedup having removed any of them
RECURSIVE SeqOfSet(_)
SeqOfSet(S) ==
    IF S = {} THEN <<>>
    ELSE LET m == CHOOSE x \in S : \A y \in S : x <= y
         IN  <<m>> \o SeqOfSet(S \ {m})

MkRecord(r) == [row_index |-> r, primary |-> PrimaryOf(r)]

RecordsOf(S) == [i \in 1..Cardinality(S) |-> MkRecord(SeqOfSet(S)[i])]

\* ClassifyBatch step 2: records[i].RowIndex = i
AssignRowIndex(recs) ==
    [i \in 1..Len(recs) |-> [recs[i] EXCEPT !.row_index = i - 1]]

Min(a, b) == IF a < b THEN a ELSE b

\* createChunks / df.iloc[i:i+chunk_size]
createChunks(recs, size) ==
    LET n == (Len(recs) + size - 1) \div size
    IN  [c \in 1..n |-> SubSeq(recs, (c - 1) * size + 1, Min(c * size, Len(recs)))]

\* the results array of a provider response whose i-th entry describes descs[i]
ProviderItems(descs) ==
    [i \in 1..Len(descs) |->
        [desc |-> descs[i], category |-> CategoryAt(i), reason |-> "llm",
         score |-> 9 - i, row_index |-> NoRow]]

DefaultItem(d) ==
    [desc |-> d, category |-> Indeterminado,
     reason |-> "No classification returned", score |-> 0 - 10,
     row_index |-> NoRow]

\* resultMap[key] = item for each item in order: a later item replaces an
\* earlier one with the same key
resultMapLookup(items, key) ==
    LET hits == {i \in 1..Len(items) : normalizeString(items[i].desc) = key}
    IN  IF hits = {} THEN <<>>
        ELSE << items[CHOOSE i \in hits : \A j \in hits : j <= i] >>

\* (mutation of fixCountMismatch: an input without a match is skipped)
fixCountMismatchSkipMissing(items, chunk) ==
    LET matched == SelectSeq(chunk,
            LAMBDA rec : resultMapLookup(items, normalizeString(rec.primary)) # <<>>)
    IN  [i \in 1..Len(matched) |->
            resultMapLookup(items, normalizeString(matched[i].primary))[1]]

fixCountMismatch(items, chunk) ==
    [i \in 1..Len(chunk) |->
        LET key == normalizeString(chunk[i].primary)
            hit == resultMapLookup(items, key)
        IN  IF hit # <<>> THEN hit[1] ELSE DefaultItem(chunk[i].primary)]

\* processChunk step 5: repair only when the counts differ
ValidateCount(items, chunk) ==
    IF Len(items) # Len(chunk) THEN fixCountMismatch(items, chunk) ELSE items

\* (mutation of StampRowIndex: the position inside the chunk is stamped)
StampRowIndexLocal(items, chunk) ==
    [i \in 1..Len(items) |-> [items[i] EXCEPT !.row_index = i - 1]]

\* processChunk step 6: normalized[i]["_row_index"] = chunk.Rows[i]["_row_index"]
StampRowIndex(items, chunk) ==
    [i \in 1..Len(items) |-> [items[i] EXCEPT !.row_index = chunk[i].row_index]]

RECURSIVE Concat(_, _)
Concat(f, n) == IF n = 0 THEN <<>> ELSE Concat(f, n - 1) \o f[n]

\* the merge of ClassifyBatch: a failed chunk fails the batch, otherwise the
\* results are joined to the records on _row_index
FailedChunks(res) == {c \in DOMAIN res : ~res[c].Success}

AllResults(res) == Concat([c \in DOMAIN res |-> res[c].Data], Len(res))

JoinRow(rec, all) ==
    LET hits == SelectSeq(all, LAMBDA it : it.row_index = rec.row_index)
    IN  [i \in 1..Len(hits) |->
            [row_index |-> rec.row_index, primary |-> rec.primary,
             category |-> hits[i].category, reason |-> hits[i].reason,
             score |-> hits[i].score]]

mergeResults(recs, res) ==
    IF FailedChunks(res) # {} THEN <<>>
    ELSE Concat([i \in 1..Len(recs) |-> JoinRow(recs[i], AllResults(res))],
                Len(recs))

mergeError(res) ==
    IF FailedChunks(res) # {} THEN "chunk failed" ELSE ""

\* the descriptions a provider response can carry for a chunk
RespDescs(chunk) == {chunk[i].primary : i \in 1..Len(chunk)} \cup {ForeignDesc}

Echo(chunk) == [i \in 1..Len(chunk) |-> chunk[i].primary]

Reverse(s) == [i \in 1..Len(s) |-> s[Len(s) + 1 - i]]

\* the provider responses tried for a chunk: every response with fewer
\* results than inputs, the in-order and the reversed response of equal
\* length, and two responses with one result too many
RespSeqs(chunk) ==
    UNION {[1..n -> RespDescs(chunk)] : n \in 0..(Len(chunk) - 1)}
    \cup {Echo(chunk), Reverse(Echo(chunk))}
    \cup {Echo(chunk) \o <<ForeignDesc>>, <<Echo(chunk)[1]>> \o Echo(chunk)}

\* errors of the provider call
CallErrors == {"network", "auth"}

NoResult == [Success |-> FALSE, Data |-> <<>>, Error |-> "pending"]

NoChunk == 0 - 1

IdleWorker == [chunk |-> NoChunk, step |-> "idle", data |-> <<>>, k |-> 0]

NoCheckpoint ==
    [TotalChunks |-> 0, ProcessedChunks |-> <<>>, stale |-> FALSE,
     recovered |-> FALSE]

\* no checkpointed batch is running
RQuiet ==
    /\ cp = NoCheckpoint
    /\ work = <<>>
    /\ pending = {}
    /\ locks = {}
    /\ table = <<>>
    /\ nextId = 1
    /\ rpc = "idle"
    /\ rem = <<>>
    /\ snapshot = NoCheckpoint
    /\ passEnq = {}
    /\ passDup = {}
    /\ passes = 0
    /\ crashes = 0
    /\ crashSnap = NoChunk
    /\ taskCount = <<>>

RIdle ==
    /\ style = "echo"
    /\ RQuiet

\* the deduplication service has not been called
NoConfig ==
    [EnableLevel2 |-> FALSE, StoreHashes |-> FALSE, CaseSensitive |-> FALSE,
     TrimWhitespace |-> FALSE]

UIdle ==
    /\ dconfig = NoConfig
    /\ dedupHashes = <<>>
    /\ drun = <<>>

NoWrite == [op |-> "none", batch_id |-> "", row_index |-> 0, err |-> ""]

\* nothing has been written to the classifications table of the schema
CIdle ==
    /\ ctable = EmptyBag
    /\ clast = NoWrite

\* the context is live
KIdle == cancelled = FALSE

\* GenerateChunks has not been called
GIdle ==
    /\ grecords = <<>>
    /\ gconfig = [ChunkSize |-> 0, FieldsToInclude |-> <<>>]
    /\ gbatch = 0
    /\ gpc = "idle"
    /\ gi = 0
    /\ gchunks = <<>>
    /\ gerr = ""
    /\ nextUuid = 1

\* no chunk has been validated
VIdle ==
    /\ vi = 0
    /\ handed = <<>>
    /\ rejected = <<>>

\* no text is in the refinery
FIdle ==
    /\ rconfig = [ToKeep |-> {}, MinLen |-> 0]
    /\ rin = <<>>
    /\ rtext = <<>>
    /\ rstep = 0

\* nothing has been sampled
SIdle ==
    /\ sresults = <<>>
    /\ history = <<>>
    /\ sexclude = {}
    /\ ssample = {}
    /\ serr = ""
    /\ spc = "idle"

NoScan == [scanned |-> FALSE, stale |-> FALSE, chunkAge |-> 0]

HIdle ==
    /\ hAlive = FALSE
    /\ hbAge = 0
    /\ tickAge = 0
    /\ chunkAge = 0
    /\ hDone = 0
    /\ hScan = NoScan

ZIdle == VIdle /\ FIdle /\ SIdle /\ HIdle

XIdle == CIdle /\ KIdle /\ GIdle /\ ZIdle

\* no merged result is being saved
OIdle ==
    /\ saved = {}
    /\ arrival = <<>>

\* no ClassifyBatch call is running
DIdle ==
    /\ input = <<>>
    /\ records = <<>>
    /\ chunks = <<>>
    /\ phase = "new"
    /\ pc = <<>>
    /\ sem = 0
    /\ retries = <<>>
    /\ calls = <<>>
    /\ lastFail = <<>>
    /\ results = <<>>
    /\ classifications = <<>>
    /\ batchErr = ""

(***************************************************************************)
(* Init                                                                    *)
(***************************************************************************)
Init ==
    /\ \E S \in (SUBSET (0..MaxRow)) \ {{}} : input = RecordsOf(S)
    /\ records = input
    /\ chunks = <<>>
    /\ phase = "new"
    /\ pc = <<>>
    /\ sem = 0
    /\ retries = <<>>
    /\ calls = <<>>
    /\ lastFail = <<>>
    /\ results = <<>>
    /\ classifications = <<>>
    /\ batchErr = ""
    /\ RIdle
    /\ OIdle
    /\ XIdle
    /\ UIdle

(***************************************************************************)
(* ClassifyBatch                                                           *)
(***************************************************************************)
\* steps 2-4: number the records, chunk them, start one goroutine per chunk
ClassifyBatchStart ==
    /\ phase = "new"
    /\ LET recs == AssignRowIndex(records)
           chs  == createChunks(recs, ChunkSize)
       IN  /\ records' = recs
           /\ chunks' = chs
           /\ pc' = [c \in DOMAIN chs |-> "acquire"]
           /\ retries' = [c \in DOMAIN chs |-> 0]
           /\ calls' = [c \in DOMAIN chs |-> 0]
           /\ lastFail' = [c \in DOMAIN chs |-> "none"]
           /\ results' = [c \in DOMAIN chs |-> NoResult]
    /\ phase' = "dispatching"
    /\ UNCHANGED << input, sem, classifications, batchErr, notDvars >>

\* (mutation of CanAcquire: the channel admits one sender too many)
CanAcquireOffByOne == sem <= ConcurrencyLimit

\* sem <- struct{}{} : blocks while the channel is full
CanAcquire == sem < ConcurrencyLimit

Acquire(c) ==
    /\ phase = "dispatching"
    /\ pc[c] = "acquire"
    /\ CanAcquire
    /\ sem' = sem + 1
    /\ pc' = [pc EXCEPT ![c] = "loop"]
    /\ UNCHANGED << input, records, chunks, phase, retries, calls, lastFail,
                    results, classifications, batchErr, notDvars >>

\* (mutation of CanAttempt: the loop runs once more)
CanAttemptOnceMore(n) == n <= MaxRetries

\* for retries < MaxRetries
CanAttempt(n) == n < MaxRetries

\* loop exit: return ChunkResult{Success: false, Error: "max retries exceeded"}
Exhausted(c) ==
    /\ phase = "dispatching"
    /\ pc[c] = "loop"
    /\ ~CanAttempt(retries[c])
    /\ results' = [results EXCEPT ![c] =
            [Success |-> FALSE, Data |-> <<>>, Error |-> "max retries exceeded"]]
    /\ pc' = [pc EXCEPT ![c] = "exited"]
    /\ sem' = sem - 1
    /\ UNCHANGED << input, records, chunks, phase, retries, calls, lastFail,
                    classifications, batchErr, notDvars >>

\* GetPromptForProcessing fails: the chunk returns at once
PromptFails(c) ==
    /\ phase = "dispatching"
    /\ pc[c] = "loop"
    /\ CanAttempt(retries[c])
    /\ results' = [results EXCEPT ![c] =
            [Success |-> FALSE, Data |-> <<>>, Error |-> "failed to get prompt"]]
    /\ lastFail' = [lastFail EXCEPT ![c] = "invalid_prompt"]
    /\ pc' = [pc EXCEPT ![c] = "exited"]
    /\ sem' = sem - 1
    /\ UNCHANGED << input, records, chunks, phase, retries, calls,
                    classifications, batchErr, notDvars >>

\* (mutation of RequestSent: the request is made with a context of its own)
RequestSentAnyway(ctxCancelled) == TRUE

\* CreateChatCompletion(ctx, ...): the HTTP request is made with ctx, and a
\* request whose context is cancelled is not sent
RequestSent(ctxCancelled) == ~ctxCancelled

\* the prompt is built and the provider request is sent
Dispatch(c) ==
    /\ phase = "dispatching"
    /\ pc[c] = "loop"
    /\ CanAttempt(retries[c])
    /\ RequestSent(cancelled)
    /\ calls' = [calls EXCEPT ![c] = @ + 1]
    /\ pc' = [pc EXCEPT ![c] = "calling"]
    /\ UNCHANGED << input, records, chunks, phase, sem, retries, lastFail,
                    results, classifications, batchErr, notDvars >>

\* (mutation of CallErrorNext: the error is returned instead of retried)
CallErrorNextReturn == "exited"

\* where processChunk goes after an error of the provider call: the backoff
\* sleep and then the loop head, whatever the error is
CallErrorNext == "sleep"

\* CreateChatCompletion returns an error: retries++, backoff sleep, continue
CallFails(c) ==
    /\ phase = "dispatching"
    /\ pc[c] = "calling"
    /\ \E e \in CallErrors : lastFail' = [lastFail EXCEPT ![c] = e]
    /\ retries' = [retries EXCEPT ![c] = @ + 1]
    /\ pc' = [pc EXCEPT ![c] = CallErrorNext]
    /\ UNCHANGED << input, records, chunks, phase, sem, calls,
                    results, classifications, batchErr, notDvars >>

\* time.Sleep of the backoff ends
Backoff(c) ==
    /\ phase = "dispatching"
    /\ pc[c] = "sleep"
    /\ pc' = [pc EXCEPT ![c] = "loop"]
    /\ UNCHANGED << input, records, chunks, phase, sem, retries, calls,
                    lastFail, results, classifications, batchErr, notDvars >>

\* the response content is not valid JSON: retries++, continue
ParseFails(c) ==
    /\ phase = "dispatching"
    /\ pc[c] = "calling"
    /\ lastFail' = [lastFail EXCEPT ![c] = "parse"]
    /\ retries' = [retries EXCEPT ![c] = @ + 1]
    /\ pc' = [pc EXCEPT ![c] = "loop"]
    /\ UNCHANGED << input, records, chunks, phase, sem, calls,
                    results, classifications, batchErr, notDvars >>

\* the response parses: count repair, row-index stamping, success
Respond(c) ==
    /\ phase = "dispatching"
    /\ pc[c] = "calling"
    /\ \E descs \in RespSeqs(chunks[c]) :
          LET fixed == ValidateCount(ProviderItems(descs), chunks[c])
          IN  results' = [results EXCEPT ![c] =
                  [Success |-> TRUE, Data |-> StampRowIndex(fixed, chunks[c]),
                   Error |-> ""]]
    /\ pc' = [pc EXCEPT ![c] = "exited"]
    /\ sem' = sem - 1
    /\ UNCHANGED << input, records, chunks, phase, retries, calls,
                    lastFail, classifications, batchErr, notDvars >>

\* wg.Wait() returns, then the merge
Merge ==
    /\ phase = "dispatching"
    /\ \A c \in ChunkIds : pc[c] = "exited"
    /\ classifications' = mergeResults(records, results)
    /\ batchErr' = mergeError(results)
    /\ phase' = "merged"
    /\ UNCHANGED << input, records, chunks, pc, sem, retries, calls, lastFail,
                    results, notDvars >>

Next ==
    \/ ClassifyBatchStart
    \/ \E c \in ChunkIds : Acquire(c)
    \/ \E c \in ChunkIds : Exhausted(c)
    \/ \E c \in ChunkIds : PromptFails(c)
    \/ \E c \in ChunkIds : Dispatch(c)
    \/ \E c \in ChunkIds : CallFails(c)
    \/ \E c \in ChunkIds : Backoff(c)
    \/ \E c \in ChunkIds : ParseFails(c)
    \/ \E c \in ChunkIds : Respond(c)
    \/ Merge

Spec == Init /\ [][Next]_vars

(***************************************************************************)
(* Properties of the dispatcher.                                           *)
(***************************************************************************)
InFlight == {c \in ChunkIds : pc[c] = "calling"}

Done(c) == pc[c] = "exited" /\ results[c].Success
FailedChunk(c) == pc[c] = "exited" /\ ~results[c].Success

IsDefault(it) == it.category = Indeterminado /\ it.score = 0 - 10

\* C1: at no instant are more than ConcurrencyLimit provider calls in
\* flight, however many chunks wait for the semaphore.
C1_ConcurrencyCap == Cardinality(InFlight) <= ConcurrencyLimit

\* the cap is reached while another chunk is still waiting to be dispatched
C1_Witness ==
    /\ Cardinality(InFlight) = ConcurrencyLimit
    /\ \E c \in ChunkIds : pc[c] = "acquire"

\* C2: every chunk that reaches DONE has exactly as many results as input
\* records, whatever number of results the provider returned.
C2_ResultCountEqualsChunk ==
    \A c \in ChunkIds : Done(c) => Len(results[c].Data) = Len(chunks[c])

\* a full chunk is DONE and all its results are synthesized placeholders (the
\* provider returned no usable result) while another DONE chunk kept a
\* provider result next to a placeholder (the provider returned fewer)
C2_Witness ==
    /\ \E c \in ChunkIds :
          /\ Done(c) /\ Len(chunks[c]) = ChunkSize
          /\ \A i \in 1..Len(results[c].Data) : IsDefault(results[c].Data[i])
    /\ \E c \in ChunkIds :
          /\ Done(c)
          /\ \E i, j \in 1..Len(results[c].Data) :
                IsDefault(results[c].Data[i]) /\ ~IsDefault(results[c].Data[j])

ClassificationsOf(r) ==
    {j \in DOMAIN classifications : classifications[j].row_index = r}

ChunkOfRecord(i) == ((i - 1) \div ChunkSize) + 1

\* C3: when the batch run is over, every record has exactly one
\* classification under its row_index, and the rows of a FAILED_CHUNK chunk
\* carry the placeholder (Indeterminado, -1, "chunk failed").
C3_ExactlyOneClassification ==
    (phase = "merged" /\ \E c \in ChunkIds : Done(c)) =>
        \A i \in 1..Len(records) :
            /\ Cardinality(ClassificationsOf(records[i].row_index)) = 1
            /\ FailedChunk(ChunkOfRecord(i)) =>
                  \A j \in ClassificationsOf(records[i].row_index) :
                      /\ IsDefault(classifications[j])
                      /\ classifications[j].reason = "chunk failed"

\* C4: the row_index the builder gave a record is the row_index of its
\* classification: the i-th result of a chunk carries the row_index of the
\* i-th input record, unchanged by any later stage.
C4_RowIndexPreserved ==
    (phase = "merged" /\ batchErr = "") =>
        /\ Len(classifications) = Len(input)
        /\ \A i \in 1..Len(input) :
              classifications[i].row_index = input[i].row_index

\* C5: a batch of which some chunks are DONE and some FAILED_CHUNK does not
\* fail: no error is returned and the results of the DONE chunks are returned.
C5_PartialCompletion ==
    (phase = "merged" /\ (\E c \in ChunkIds : Done(c))
                      /\ (\E c \in ChunkIds : FailedChunk(c))) =>
        /\ batchErr = ""
        /\ \A i \in 1..Len(records) :
              Done(ChunkOfRecord(i)) => ClassificationsOf(records[i].row_index) # {}

\* position of a chunk in its processChunk call, growing with every step
ChunkRank(c) ==
    IF pc[c] = "exited" THEN 4 * (MaxRetries + 1) + 4
    ELSE IF pc[c] = "acquire" THEN 0
    ELSE 4 * retries[c] + (IF pc[c] = "loop" THEN 3
                           ELSE IF pc[c] = "calling" THEN 4
                           ELSE 2)

C6_Bounded ==
    \A c \in ChunkIds :
        /\ retries[c] <= MaxRetries
        /\ calls[c] <= MaxRetries
        /\ calls[c] <= retries[c] + 1
        /\ (pc[c] = "exited" /\ retries[c] = MaxRetries) =>
               (~results[c].Success /\ results[c].Error = "max retries exceeded")

C6_Progress ==
    \A c \in ChunkIds :
        (c \in DOMAIN pc' /\ pc'[c] # pc[c]) =>
            (ChunkRank(c)' > ChunkRank(c))

\* C6: retries of a chunk are bounded by MaxRetries: the retry counter and
\* the number of provider calls never exceed it, every step of a chunk moves
\* it strictly forward towards DONE or FAILED_CHUNK (so it ends after
\* finitely many attempts), and a chunk whose attempts all failed is failed.
C6_RetriesBounded == [](C6_Bounded) /\ [][C6_Progress]_vars

\* a chunk used all its attempts and ended as FAILED_CHUNK
C6_Witness ==
    \E c \in ChunkIds :
        /\ FailedChunk(c)
        /\ calls[c] = MaxRetries
        /\ retries[c] = MaxRetries
        /\ results[c].Error = "max retries exceeded"

FirstOccurrenceKept(items, data, chunk) ==
    \A i \in 1..Len(chunk) :
        LET hits == {j \in 1..Len(items) :
                        normalizeString(items[j].desc) = normalizeString(chunk[i].primary)}
            first == CHOOSE j \in hits : \A k \in hits : j <= k
        IN  hits # {} =>
                /\ data[i].category = items[first].category
                /\ data[i].score = items[first].score

\* C28: when processChunk has repaired a response with more results than
\* the chunk has records, the result it keeps for a record is the first
\* result of the response that carries the record's primary value; this is
\* required of every such response the stored results can come from.
C28_FirstOccurrenceKept ==
    [][\A c \in ChunkIds :
          (pc[c] = "calling" /\ c \in DOMAIN pc' /\ pc'[c] = "exited"
              /\ results'[c].Success)
          => \A descs \in RespSeqs(chunks[c]) :
                (/\ Len(descs) > Len(chunks[c])
                 /\ results'[c].Data =
                       StampRowIndex(ValidateCount(ProviderItems(descs), chunks[c]),
                                     chunks[c]))
                => FirstOccurrenceKept(ProviderItems(descs), results'[c].Data,
                                       chunks[c])]_vars


(***************************************************************************)
(* Checkpointed execution of one batch and recovery of lost work.          *)
(***************************************************************************)
BatchRows == 3
MaxPasses == 2
MaxCrashes == 1

\* the worker that runs the batch, and the worker that serves the queue
Owner == "owner"
TaskWorkerIds == {"worker"}
Workers == {Owner} \cup TaskWorkerIds
Styles == {"echo", "short", "reversed"}

BatchRecords == AssignRowIndex(RecordsOf(0..(BatchRows - 1)))
BatchChunks == createChunks(BatchRecords, ChunkSize)
TotalChunks == Len(BatchChunks)
ChunkRows(c) == BatchChunks[c + 1]
Range(f) == {f[i] : i \in DOMAIN f}

\* the response the provider gives for a chunk, the same whenever it is asked
Answer(chunk, st) ==
    IF st = "echo" THEN Echo(chunk)
    ELSE IF st = "short" THEN SubSeq(Echo(chunk), 1, Len(chunk) - 1)
    ELSE Reverse(Echo(chunk))

\* processChunk with a provider call that succeeds
ChunkResult(c, st) ==
    StampRowIndex(
        ValidateCount(ProviderItems(Answer(ChunkRows(c), st)), ChunkRows(c)),
        ChunkRows(c))

KeyHits(tbl, r) == {j \in DOMAIN tbl : tbl[j].row_index = r}

NewRow(it, id) ==
    [id |-> id, row_index |-> it.row_index, category |-> it.category,
     reason |-> it.reason, score |-> it.score, updated_at |-> "created"]

\* (mutation of Upsert: the row is inserted without looking for its key)
UpsertAlwaysInsert(tbl, it, id) == Append(tbl, NewRow(it, id))

\* (mutation of Upsert: the row is updated when it is found, and nothing is
\* written when it is not)
UpsertUpdateOnly(tbl, it, id) ==
    IF KeyHits(tbl, it.row_index) # {}
    THEN LET j == CHOOSE j \in KeyHits(tbl, it.row_index) : TRUE
         IN  [tbl EXCEPT ![j] =
                 [@ EXCEPT !.category = it.category, !.reason = it.reason,
                           !.score = it.score, !.updated_at = "later"]]
    ELSE tbl

\* (mutation of Upsert: the row is looked up by batch_id alone, so the first
\* row of the batch is the one updated)
UpsertByBatch(tbl, it, id) ==
    IF tbl # <<>>
    THEN [tbl EXCEPT ![1] =
             [@ EXCEPT !.row_index = it.row_index, !.category = it.category,
                       !.reason = it.reason, !.score = it.score,
                       !.updated_at = "later"]]
    ELSE Append(tbl, NewRow(it, id))

\* find the row of (batch_id, row_index); update it in place, else create it
Upsert(tbl, it, id) ==
    IF KeyHits(tbl, it.row_index) # {}
    THEN LET j == CHOOSE j \in KeyHits(tbl, it.row_index) : TRUE
         IN  [tbl EXCEPT ![j] =
                 [@ EXCEPT !.category = it.category, !.reason = it.reason,
                           !.score = it.score, !.updated_at = "later"]]
    ELSE Append(tbl, NewRow(it, id))

\* (mutation of SaveProgress: the 1-based chunk number is recorded)
SaveProgressOneBased(c0, chunkID) ==
    [c0 EXCEPT !.ProcessedChunks = Append(@, chunkID + 1), !.stale = FALSE]

SaveProgress(c0, chunkID) ==
    [c0 EXCEPT !.ProcessedChunks = Append(@, chunkID), !.stale = FALSE]

\* (mutation of calculateRemainingChunks: the loop runs over 1..TotalChunks)
calculateRemainingChunksFromOne(c0) ==
    SeqOfSet({i \in 1..c0.TotalChunks : i \notin Range(c0.ProcessedChunks)})

calculateRemainingChunks(c0) ==
    SeqOfSet({i \in 0..(c0.TotalChunks - 1) : i \notin Range(c0.ProcessedChunks)})

RInit ==
    /\ DIdle
    /\ OIdle
    /\ XIdle
    /\ UIdle
    /\ style \in Styles
    /\ cp = [TotalChunks |-> TotalChunks, ProcessedChunks |-> <<>>,
             stale |-> FALSE, recovered |-> FALSE]
    /\ work = [w \in Workers |-> IdleWorker]
    /\ pending = {}
    /\ locks = {}
    /\ table = <<>>
    /\ nextId = 1
    /\ rpc = "idle"
    /\ rem = <<>>
    /\ snapshot = NoCheckpoint
    /\ passEnq = {}
    /\ passDup = {}
    /\ passes = 0
    /\ crashes = 0
    /\ crashSnap = NoChunk
    /\ taskCount = [c \in 0..(TotalChunks - 1) |-> 0]

Busy(c) == [chunk |-> c, step |-> "persist", data |-> ChunkResult(c, style), k |-> 0]

\* the owning worker classifies a chunk it has not recorded yet
OwnerStart(c) ==
    /\ work[Owner].step = "idle"
    /\ c \notin Range(cp.ProcessedChunks)
    /\ work' = [work EXCEPT ![Owner] = Busy(c)]
    /\ UNCHANGED << notRvars, taskCount, style, cp, pending, locks, table, nextId, rpc, rem,
                    snapshot, passEnq, passDup, passes, crashes, crashSnap >>

\* a worker takes a process:chunk task and classifies its chunk
Claim(w, c) ==
    /\ w # Owner
    /\ work[w].step = "idle"
    /\ c \in pending
    /\ pending' = pending \ {c}
    /\ work' = [work EXCEPT ![w] = Busy(c)]
    /\ UNCHANGED << notRvars, taskCount, style, cp, locks, table, nextId, rpc, rem,
                    snapshot, passEnq, passDup, passes, crashes, crashSnap >>

\* one classification of the chunk is written to the table
PersistRow(w) ==
    /\ work[w].step = "persist"
    /\ LET it == work[w].data[work[w].k + 1]
       IN  /\ table' = Upsert(table, it, nextId)
           /\ nextId' = IF Len(table') > Len(table) THEN nextId + 1 ELSE nextId
    /\ work' = [work EXCEPT ![w].k = @ + 1,
                            ![w].step = IF work[w].k + 1 = Len(work[w].data)
                                        THEN "save" ELSE "persist"]
    /\ UNCHANGED << notRvars, taskCount, style, cp, pending, locks, rpc, rem,
                    snapshot, passEnq, passDup, passes, crashes, crashSnap >>

\* the chunk is recorded in the checkpoint
SaveProgressStep(w) ==
    /\ work[w].step = "save"
    /\ cp' = SaveProgress(cp, work[w].chunk)
    /\ work' = [work EXCEPT ![w] =
                   IF w = Owner THEN IdleWorker ELSE [@ EXCEPT !.step = "ack"]]
    /\ UNCHANGED << notRvars, taskCount, style, pending, locks, table, nextId, rpc, rem,
                    snapshot, passEnq, passDup, passes, crashes, crashSnap >>

\* the handler returns nil: the task is done and its Unique lock released
Ack(w) ==
    /\ work[w].step = "ack"
    /\ locks' = locks \ {work[w].chunk}
    /\ work' = [work EXCEPT ![w] = IdleWorker]
    /\ UNCHANGED << notRvars, taskCount, style, cp, pending, table, nextId, rpc, rem,
                    snapshot, passEnq, passDup, passes, crashes, crashSnap >>

\* the owning worker is lost with whatever it had in memory
OwnerCrash ==
    /\ work[Owner].step # "dead"
    /\ work' = [work EXCEPT ![Owner] = [IdleWorker EXCEPT !.step = "dead"]]
    /\ crashSnap' = Cardinality(Range(cp.ProcessedChunks))
    /\ UNCHANGED << notRvars, taskCount, style, cp, pending, locks, table, nextId, rpc, rem,
                    snapshot, passEnq, passDup, passes, crashes >>

\* a worker is lost while it holds a task: the queue hands the task out again
WorkerCrash(w) ==
    /\ w # Owner
    /\ crashes < MaxCrashes
    /\ work[w].step # "idle"
    /\ pending' = pending \cup {work[w].chunk}
    /\ work' = [work EXCEPT ![w] = IdleWorker]
    /\ crashes' = crashes + 1
    /\ UNCHANGED << notRvars, taskCount, style, cp, locks, table, nextId, rpc, rem,
                    snapshot, passEnq, passDup, passes, crashSnap >>

\* the last heartbeat of the checkpoint becomes older than the threshold
HeartbeatExpires ==
    /\ work[Owner].step = "dead"
    /\ ~cp.stale
    /\ cp' = [cp EXCEPT !.stale = TRUE]
    /\ UNCHANGED << notRvars, taskCount, style, work, pending, locks, table, nextId, rpc, rem,
                    snapshot, passEnq, passDup, passes, crashes, crashSnap >>

\* RecoverLostWork loads the orphaned checkpoint and its remaining chunks
RecoverStart ==
    /\ rpc = "idle"
    /\ cp.stale
    /\ passes < MaxPasses
    /\ passes' = passes + 1
    /\ snapshot' = cp
    /\ rem' = calculateRemainingChunks(cp)
    /\ passEnq' = {}
    /\ passDup' = {}
    /\ rpc' = "enqueue"
    /\ UNCHANGED << notRvars, taskCount, style, cp, work, pending, locks, table, nextId,
                    crashes, crashSnap >>

\* Enqueue with asynq.Unique: a task whose lock is held is refused, and the
\* refusal is only logged
RecoverEnqueue ==
    /\ rpc = "enqueue"
    /\ rem # <<>>
    /\ LET c == Head(rem)
       IN  IF c \in locks
           THEN /\ passDup' = passDup \cup {c}
                /\ UNCHANGED << pending, locks, passEnq, taskCount >>
           ELSE /\ pending' = pending \cup {c}
                /\ locks' = locks \cup {c}
                /\ passEnq' = passEnq \cup {c}
                /\ taskCount' = [taskCount EXCEPT ![c] = @ + 1]
                /\ UNCHANGED passDup
    /\ rem' = Tail(rem)
    /\ UNCHANGED << notRvars, style, cp, work, table, nextId, rpc, snapshot,
                    passes, crashes, crashSnap >>

\* the loaded checkpoint is stamped recovered_at and written back
RecoverFinish ==
    /\ rpc = "enqueue"
    /\ rem = <<>>
    /\ cp' = [snapshot EXCEPT !.recovered = TRUE]
    /\ rpc' = "idle"
    /\ UNCHANGED << notRvars, taskCount, style, work, pending, locks, table, nextId, rem,
                    snapshot, passEnq, passDup, passes, crashes, crashSnap >>

RNext ==
    \/ \E c \in 0..(TotalChunks - 1) : OwnerStart(c)
    \/ \E w \in Workers, c \in 0..(TotalChunks - 1) : Claim(w, c)
    \/ \E w \in Workers : PersistRow(w)
    \/ \E w \in Workers : SaveProgressStep(w)
    \/ \E w \in Workers : Ack(w)
    \/ OwnerCrash
    \/ \E w \in Workers : WorkerCrash(w)
    \/ HeartbeatExpires
    \/ RecoverStart
    \/ RecoverEnqueue
    \/ RecoverFinish

SpecRecovery == RInit /\ [][RNext]_vars


Content(row) ==
    [id |-> row.id, row_index |-> row.row_index, category |-> row.category,
     reason |-> row.reason, score |-> row.score]

AllRowIndexes == {BatchRecords[i].row_index : i \in 1..Len(BatchRecords)}

Classified(row) ==
    [row_index |-> row.row_index, category |-> row.category,
     reason |-> row.reason, score |-> row.score]

TableContent == {Classified(table[j]) : j \in DOMAIN table}

\* the classifications processChunk yields for the chunks of the batch
ExpectedContent ==
    UNION {{Classified(ChunkResult(c, style)[i]) :
                i \in 1..Len(ChunkResult(c, style))} : c \in 0..(TotalChunks - 1)}

CrashFreeDone ==
    /\ work[Owner].step = "idle"
    /\ \A c \in 0..(TotalChunks - 1) : c \in Range(cp.ProcessedChunks)

RecoveredDone ==
    /\ work[Owner].step = "dead"
    /\ cp.recovered
    /\ rpc = "idle"
    /\ pending = {}
    /\ \A w \in TaskWorkerIds : work[w].step = "idle"

OInit ==
    /\ \E S \in (SUBSET (0..MaxRow)) \ {{}} : input = RecordsOf(S)
    /\ records = input
    /\ chunks = <<>>
    /\ phase = "new"
    /\ pc = <<>>
    /\ sem = 0
    /\ retries = <<>>
    /\ calls = <<>>
    /\ lastFail = <<>>
    /\ results = <<>>
    /\ classifications = <<>>
    /\ batchErr = ""
    /\ style \in Styles
    /\ RQuiet
    /\ OIdle
    /\ XIdle
    /\ UIdle

\* the provider answers the chunk; results[idx] = processChunk(...)
RespondSame(c) ==
    /\ phase = "dispatching"
    /\ pc[c] = "calling"
    /\ LET fixed == ValidateCount(ProviderItems(Answer(chunks[c], style)), chunks[c])
       IN  results' = [results EXCEPT ![c] =
               [Success |-> TRUE, Data |-> StampRowIndex(fixed, chunks[c]),
                Error |-> ""]]
    /\ pc' = [pc EXCEPT ![c] = "exited"]
    /\ sem' = sem - 1
    /\ arrival' = Append(arrival, c)
    /\ UNCHANGED << input, records, chunks, phase, retries, calls, lastFail,
                    classifications, batchErr, rvars, saved, notDRO >>

\* saveLLMResults writes one classification of the merged result
SaveRow(i) ==
    /\ phase = "merged"
    /\ batchErr = ""
    /\ i \in DOMAIN classifications
    /\ i \notin saved
    /\ table' = Upsert(table, classifications[i], nextId)
    /\ nextId' = IF Len(table') > Len(table) THEN nextId + 1 ELSE nextId
    /\ saved' = saved \cup {i}
    /\ UNCHANGED << dvars, style, cp, work, pending, locks, rpc, rem, snapshot,
                    passEnq, passDup, passes, crashes, crashSnap, taskCount,
                    arrival, notDRO >>

ONext ==
    \/ ClassifyBatchStart
    \/ \E c \in ChunkIds : Acquire(c)
    \/ \E c \in ChunkIds : Dispatch(c)
    \/ \E c \in ChunkIds : RespondSame(c)
    \/ Merge
    \/ \E i \in DOMAIN classifications : SaveRow(i)

SpecOrder == OInit /\ [][ONext]_vars

\* the classification of every record, computed from the input and the way
\* the provider answers alone
ExpectedClassifications(recs, st) ==
    LET rs == AssignRowIndex(recs)
        cs == createChunks(rs, ChunkSize)
    IN  [i \in 1..Len(rs) |->
            LET c == ((i - 1) \div ChunkSize) + 1
                p == ((i - 1) % ChunkSize) + 1
                items == ValidateCount(ProviderItems(Answer(cs[c], st)), cs[c])
            IN  [row_index |-> rs[i].row_index, primary |-> rs[i].primary,
                 category |-> items[p].category, reason |-> items[p].reason,
                 score |-> items[p].score]]

\* C11: whatever the order in which the chunks are dispatched, their
\* results arrive and the classifications are written, the merged result
\* and the saved table are the ones determined by the input and the
\* provider's answers.
C11_OrderIndependent ==
    /\ phase = "merged" =>
          /\ batchErr = ""
          /\ classifications = ExpectedClassifications(input, style)
    /\ (phase = "merged" /\ saved = DOMAIN classifications) =>
          /\ Len(table) = Len(input)
          /\ TableContent =
                {Classified(ExpectedClassifications(input, style)[i]) :
                    i \in 1..Len(input)}

\* the results arrived against the chunk order and the rows were written
\* against the row order
C11_Witness ==
    /\ phase = "merged"
    /\ saved = DOMAIN classifications
    /\ Len(arrival) >= 2
    /\ arrival[1] > arrival[2]
    /\ Len(table) >= 2
    /\ table[1].row_index > table[2].row_index


(***************************************************************************)
(* Two-level deduplication with hash storage.                              *)
(***************************************************************************)
\* records of a batch: at most DedupMaxLen, and at most DedupFirstLen in the
\* short batch b1
DedupMaxLen == 3
DedupFirstLen == 1
DedupBatches == {"b1", "b2"}
DedupValues == { <<"a">>, <<" ", "A">>, <<"b">> }

\* the configurations tried: the universal one of the tests, the in-batch
\* pass alone and without normalization, and the universal one without hash
\* storage
DedupConfigs ==
    { [EnableLevel2 |-> TRUE, StoreHashes |-> TRUE, CaseSensitive |-> FALSE,
       TrimWhitespace |-> TRUE],
      [EnableLevel2 |-> FALSE, StoreHashes |-> TRUE, CaseSensitive |-> TRUE,
       TrimWhitespace |-> FALSE],
      [EnableLevel2 |-> TRUE, StoreHashes |-> FALSE, CaseSensitive |-> FALSE,
       TrimWhitespace |-> TRUE] }
DedupInputs(b) ==
    UNION {[1..n -> DedupValues] :
              n \in 0..(IF b = "b1" THEN DedupFirstLen ELSE DedupMaxLen)}

toLowerChar(ch) == IF ch = "A" THEN "a" ELSE IF ch = "B" THEN "b" ELSE ch

toLowerCase(s) == [i \in 1..Len(s) |-> toLowerChar(s[i])]

trimWhitespace(s) == stripRight(stripLeft(s))

normalizeValue(val, config) ==
    LET trimmed == IF config.TrimWhitespace THEN trimWhitespace(val) ELSE val
    IN  IF ~config.CaseSensitive THEN toLowerCase(trimmed) ELSE trimmed

\* the hash is represented by the serialization SHA-256 is applied to
generateHash(record, config) == normalizeValue(record.value, config)

generateHashes(recs, config) ==
    [i \in 1..Len(recs) |-> [recs[i] EXCEPT !.Hash = generateHash(recs[i], config)]]

\* the records of a batch as the caller hands them over: RowIndex is the
\* position in the file
MkDedupRecords(vals) ==
    [i \in 1..Len(vals) |-> [RowIndex |-> i - 1, value |-> vals[i], Hash |-> <<>>]]

\* (mutation of deduplicateLevel1: a later record replaces the one seen)
RECURSIVE deduplicateLevel1LastWins(_)
deduplicateLevel1LastWins(recs) ==
    IF recs = <<>> THEN <<>>
    ELSE IF \E j \in 2..Len(recs) : recs[j].Hash = recs[1].Hash
         THEN deduplicateLevel1LastWins(Tail(recs))
         ELSE <<recs[1]>> \o deduplicateLevel1LastWins(Tail(recs))

\* the loop of deduplicateLevel1 from record i on, with its seen map and its
\* unique slice
RECURSIVE Level1Loop(_, _, _, _)
Level1Loop(recs, i, seen, unique) ==
    IF i > Len(recs) THEN unique
    ELSE IF recs[i].Hash \notin seen
         THEN Level1Loop(recs, i + 1, seen \cup {recs[i].Hash}, Append(unique, recs[i]))
         ELSE Level1Loop(recs, i + 1, seen, unique)

deduplicateLevel1(recs) == Level1Loop(recs, 1, {}, <<>>)

\* (mutation of CheckHashExists: the query asks for kept = false)
CheckHashExistsNotKept(tbl, hash) ==
    \E j \in DOMAIN tbl : tbl[j].hash = hash /\ ~tbl[j].kept

\* SELECT COUNT(*) ... WHERE hash = ? AND kept = true, any batch
CheckHashExists(tbl, hash) ==
    \E j \in DOMAIN tbl : tbl[j].hash = hash /\ tbl[j].kept

\* the loop of deduplicateLevel2; errs are the records whose existence check
\* returns an error (fail-open)
RECURSIVE Level2Loop(_, _, _, _, _)
Level2Loop(recs, i, tbl, errs, unique) ==
    IF i > Len(recs) THEN unique
    ELSE IF i \in errs THEN Level2Loop(recs, i + 1, tbl, errs, Append(unique, recs[i]))
    ELSE IF ~CheckHashExists(tbl, recs[i].Hash)
         THEN Level2Loop(recs, i + 1, tbl, errs, Append(unique, recs[i]))
         ELSE Level2Loop(recs, i + 1, tbl, errs, unique)

deduplicateLevel2(recs, tbl, errs) == Level2Loop(recs, 1, tbl, errs, <<>>)

\* the HashEntry list storeHashes builds
storeHashes(original, final) ==
    LET keptIndices == {final[i].RowIndex : i \in 1..Len(final)}
    IN  [i \in 1..Len(original) |->
            [Hash |-> original[i].Hash,
             OriginalRowIndex |-> original[i].RowIndex,
             Kept |-> original[i].RowIndex \in keptIndices]]

\* Create of a field tagged gorm:"default:true": a zero value is replaced by
\* the default
GormDefaultTrue(v) == IF v = FALSE THEN TRUE ELSE v

SaveHashes(tbl, batchID, hashes) ==
    tbl \o [i \in 1..Len(hashes) |->
               [batch_id |-> batchID, hash |-> hashes[i].Hash,
                original_row_index |-> hashes[i].OriginalRowIndex,
                kept |-> GormDefaultTrue(hashes[i].Kept)]]

NoRun ==
    [stage |-> "new", records |-> <<>>, level1 |-> <<>>, final |-> <<>>,
     seenKept |-> {}, errs |-> {}, stored |-> "no"]

UInit ==
    /\ DIdle
    /\ RIdle
    /\ OIdle
    /\ XIdle
    /\ dconfig \in DedupConfigs
    /\ dedupHashes = <<>>
    /\ drun = [b \in DedupBatches |-> NoRun]

\* Deduplicate up to the survivors: hashes, level 1, level 2
DeduplicateFilter(b, vals) ==
    /\ drun[b].stage = "new"
    /\ LET recs == generateHashes(MkDedupRecords(vals), dconfig)
           l1 == deduplicateLevel1(recs)
       IN  \E errs \in (IF dconfig.EnableLevel2 THEN SUBSET (1..Len(l1)) ELSE {{}}) :
             drun' = [drun EXCEPT ![b] =
                 [stage |-> IF Len(recs) = 0 THEN "done" ELSE "filtered",
                  records |-> recs,
                  level1 |-> l1,
                  final |-> IF dconfig.EnableLevel2
                            THEN deduplicateLevel2(l1, dedupHashes, errs)
                            ELSE l1,
                  seenKept |-> {dedupHashes[j].hash :
                                  j \in {k \in DOMAIN dedupHashes : dedupHashes[k].kept}},
                  errs |-> errs,
                  stored |-> "no"]]
    /\ UNCHANGED << notUvars, dconfig, dedupHashes >>

\* Deduplicate from "Store hashes in database if configured" on
DeduplicateStore(b, ok) ==
    /\ drun[b].stage = "filtered"
    /\ ~dconfig.StoreHashes => ok
    /\ dedupHashes' =
          IF dconfig.StoreHashes /\ ok
          THEN SaveHashes(dedupHashes, b, storeHashes(drun[b].records, drun[b].final))
          ELSE dedupHashes
    /\ drun' = [drun EXCEPT ![b].stage = "done",
                            ![b].stored = IF ~dconfig.StoreHashes THEN "off"
                                          ELSE IF ok THEN "yes" ELSE "failed"]
    /\ UNCHANGED << notUvars, dconfig >>

UNext ==
    \/ \E b \in DedupBatches :
          \E vals \in DedupInputs(b) : DeduplicateFilter(b, vals)
    \/ \E b \in DedupBatches, ok \in BOOLEAN : DeduplicateStore(b, ok)

SpecDedup == UInit /\ [][UNext]_vars


(***************************************************************************)
(* Properties of deduplication.                                            *)
(***************************************************************************)
Filtered(b) == drun[b].stage # "new"

FinalRows(b) == {drun[b].final[i].RowIndex : i \in 1..Len(drun[b].final)}

\* C12 as stated: with level 2 enabled, no survivor of a batch has a hash
\* that was stored with kept = true when the batch was checked.
C12_NoKeptHashKeptAgain ==
    \A b \in DedupBatches :
        (Filtered(b) /\ dconfig.EnableLevel2) =>
            \A i \in 1..Len(drun[b].final) :
                drun[b].final[i].Hash \notin drun[b].seenKept

\* C12 amended: with level 2 enabled, a record that survived level 1 is
\* removed if and only if its hash is stored with kept = true and its
\* existence check succeeds; a record whose check returns an error is kept.
C12_KeptAgainOnlyOnCheckError ==
    \A b \in DedupBatches :
        (Filtered(b) /\ dconfig.EnableLevel2) =>
            \A i \in 1..Len(drun[b].level1) :
                (drun[b].level1[i].RowIndex \notin FinalRows(b))
                    <=> (drun[b].level1[i].Hash \in drun[b].seenKept
                         /\ i \notin drun[b].errs)

\* a later batch of two distinct records, one of them stored by an earlier
\* batch: only the new one survives
C12_Witness ==
    \E b \in DedupBatches :
        /\ Filtered(b)
        /\ dconfig.EnableLevel2
        /\ drun[b].errs = {}
        /\ Len(drun[b].level1) = 2
        /\ Len(drun[b].final) = 1
        /\ drun[b].final[1].Hash \notin drun[b].seenKept
        /\ drun[b].level1[1].Hash \in drun[b].seenKept


\* the normalized clean-field value of a record
NormalizedValue(rec) == normalizeValue(rec.value, dconfig)

Level1Rows(b) == {drun[b].level1[k].RowIndex : k \in 1..Len(drun[b].level1)}

\* C17: within a batch, among the records with equal normalized clean-field
\* values exactly the first survives the in-batch pass; the survivors are
\* the records they were, row_index included, in the order of the input.
C17_FirstSeenWins ==
    \A b \in DedupBatches :
        Filtered(b) =>
            LET recs == drun[b].records
                l1 == drun[b].level1
            IN  /\ \A i \in 1..Len(recs) :
                      (recs[i].RowIndex \in Level1Rows(b))
                          <=> ~\E j \in 1..(i - 1) :
                                 NormalizedValue(recs[j]) = NormalizedValue(recs[i])
                /\ \A k \in 1..Len(l1) : l1[k] = recs[l1[k].RowIndex + 1]
                /\ \A k, m \in 1..Len(l1) :
                      k < m => l1[k].RowIndex < l1[m].RowIndex
                /\ ~dconfig.EnableLevel2 => drun[b].final = l1

\* three records, the second equal to the first after trimming and case
\* folding only: rows 0 and 2 survive
C17_Witness ==
    \E b \in DedupBatches :
        /\ Filtered(b)
        /\ Len(drun[b].records) = 3
        /\ drun[b].records[1].value # drun[b].records[2].value
        /\ NormalizedValue(drun[b].records[1]) = NormalizedValue(drun[b].records[2])
        /\ Len(drun[b].level1) = 2
        /\ drun[b].level1[1].RowIndex = 0
        /\ drun[b].level1[2].RowIndex = 2


\* the rows of DedupHash written for a batch
StoredEntries(b) == {j \in DOMAIN dedupHashes : dedupHashes[j].batch_id = b}

\* C18: once the hashes of a batch are stored, DedupHash holds one entry per
\* input row of the batch, and the entry's kept flag is true exactly when
\* the row is among the survivors.
C18_AllRowsStoredWithKeptFlag ==
    \A b \in DedupBatches :
        drun[b].stored = "yes" =>
            /\ Cardinality(StoredEntries(b)) = Len(drun[b].records)
            /\ \A i \in 1..Len(drun[b].records) :
                  \E j \in StoredEntries(b) :
                      /\ dedupHashes[j].original_row_index = drun[b].records[i].RowIndex
                      /\ dedupHashes[j].hash = drun[b].records[i].Hash
                      /\ dedupHashes[j].kept
                            = (drun[b].records[i].RowIndex \in FinalRows(b))

(***************************************************************************)
(* SpecRerun: Deduplicate with the cross-batch check enabled, where a      *)
(* caller may call Deduplicate for a batch id again with the records of    *)
(* the first call (a task that is delivered again).                        *)
(***************************************************************************)
\* no further call once dedup_hashes holds this many rows
DedupMaxStored == 3

RerunInit ==
    /\ UInit
    /\ dconfig.EnableLevel2

\* Deduplicate called again for batch b with the same records, up to the
\* survivors
DeduplicateAgain(b) ==
    /\ drun[b].stage = "done"
    /\ Len(drun[b].records) > 0
    /\ Len(dedupHashes) < DedupMaxStored
    /\ LET recs == generateHashes(drun[b].records, dconfig)
           l1 == deduplicateLevel1(recs)
       IN  \E errs \in SUBSET (1..Len(l1)) :
             drun' = [drun EXCEPT ![b] =
                 [stage |-> "filtered",
                  records |-> recs,
                  level1 |-> l1,
                  final |-> deduplicateLevel2(l1, dedupHashes, errs),
                  seenKept |-> {dedupHashes[j].hash :
                                  j \in {k \in DOMAIN dedupHashes : dedupHashes[k].kept}},
                  errs |-> errs,
                  stored |-> "no"]]
    /\ UNCHANGED << notUvars, dconfig, dedupHashes >>

RerunNext ==
    \/ UNext
    \/ \E b \in DedupBatches : DeduplicateAgain(b)

SpecRerun == RerunInit /\ [][RerunNext]_vars

\* C29: a record the cross-batch check removes from a batch has its hash
\* stored with kept = true under the id of another batch; rows stored under
\* the batch's own id, by an earlier call for the same batch, remove nothing.
C29_RejectedOnlyByPriorBatch ==
    \A b \in DedupBatches :
        (Filtered(b) /\ dconfig.EnableLevel2) =>
            \A i \in 1..Len(drun[b].level1) :
                (drun[b].level1[i].RowIndex \notin FinalRows(b)) =>
                    \E j \in DOMAIN dedupHashes :
                        /\ dedupHashes[j].hash = drun[b].level1[i].Hash
                        /\ dedupHashes[j].kept
                        /\ dedupHashes[j].batch_id # b


(***************************************************************************)
(* SpecSchema: the classifications table of 001_initial_schema, written    *)
(* the way the domain tests write it: db.Create of a new row, and          *)
(* First + Save of an existing one.                                        *)
(***************************************************************************)
\* row_index values written: 0..SchemaRows - 1
SchemaRows == 2
SchemaBatches == {"b1", "b2"}
SchemaData == {"data1", "data2"}

SameKey(tbl, b, i) == {r \in BagToSet(tbl) : r.batch_id = b /\ r.row_index = i}

\* (mutation of Create: the table without CONSTRAINT unique_batch_row, as
\* AutoMigrate builds it from the struct tags)
CreateNoConstraint(tbl, row) == [table |-> tbl (+) SetToBag({row}), err |-> ""]

\* INSERT into classifications; CONSTRAINT unique_batch_row UNIQUE(batch_id,
\* row_index) rejects a row whose key is present
Create(tbl, row) ==
    IF SameKey(tbl, row.batch_id, row.row_index) # {}
    THEN [table |-> tbl, err |-> "unique_batch_row"]
    ELSE [table |-> tbl (+) SetToBag({row}), err |-> ""]

CInit ==
    /\ DIdle
    /\ RIdle
    /\ OIdle
    /\ UIdle
    /\ CIdle
    /\ KIdle
    /\ GIdle
    /\ ZIdle

\* db.Create(&Classification{BatchID: b, RowIndex: i, ...})
CreateClassification(b, i, d) ==
    /\ LET r == Create(ctable, [batch_id |-> b, row_index |-> i, data |-> d])
       IN  /\ ctable' = r.table
           /\ clast' = [op |-> "create", batch_id |-> b, row_index |-> i, err |-> r.err]
    /\ UNCHANGED notCvars

\* db.Where("batch_id = ? AND row_index = ?").First(&existing); when it is
\* found, existing is changed and saved
SaveExisting(b, i, d) ==
    /\ SameKey(ctable, b, i) # {}
    /\ LET existing == CHOOSE r \in SameKey(ctable, b, i) : TRUE
       IN  ctable' = (ctable (-) SetToBag({existing}))
                        (+) SetToBag({[existing EXCEPT !.data = d]})
    /\ clast' = [op |-> "save", batch_id |-> b, row_index |-> i, err |-> ""]
    /\ UNCHANGED notCvars

CNext ==
    \/ \E b \in SchemaBatches, i \in 0..(SchemaRows - 1), d \in SchemaData :
          CreateClassification(b, i, d)
    \/ \E b \in SchemaBatches, i \in 0..(SchemaRows - 1), d \in SchemaData :
          SaveExisting(b, i, d)

SpecSchema == CInit /\ [][CNext]_vars

C14_EnqueuedAtMostOnce ==
    \A c \in DOMAIN taskCount : taskCount[c] <= 1


\* the classifications of one chunk
ChunkContent(c) ==
    {Classified(ChunkResult(c, style)[i]) : i \in 1..Len(ChunkResult(c, style))}

Persisted(c) == ChunkContent(c) \subseteq TableContent

\* a task of the chunk was created and its handler has returned nil
Acknowledged(c) == taskCount[c] > 0 /\ c \notin locks

\* C15: a process:chunk task is acknowledged only after the classifications
\* of its chunk are in the table, and a task that is not acknowledged is
\* either waiting in the queue or held by a live worker: when its worker is
\* lost before the rows are written, the task is delivered again.
C15_AckAfterPersistence ==
    /\ \A w \in TaskWorkerIds :
          work[w].step = "ack" => Persisted(work[w].chunk)
    /\ \A c \in DOMAIN taskCount : Acknowledged(c) => Persisted(c)
    /\ \A c \in locks :
          \/ c \in pending
          \/ \E w \in TaskWorkerIds : work[w].chunk = c /\ work[w].step # "idle"

\* one task is acknowledged; the worker of the other was lost before its
\* rows were written and the task waits in the queue again
C15_Witness ==
    /\ crashes = 1
    /\ \E c \in DOMAIN taskCount : Acknowledged(c)
    /\ \E c \in pending : c \in locks /\ ~Persisted(c)

KInit ==
    /\ \E n \in 0..(BatchRows - 1) : input = RecordsOf(0..n)
    /\ records = input
    /\ chunks = <<>>
    /\ phase = "new"
    /\ pc = <<>>
    /\ sem = 0
    /\ retries = <<>>
    /\ calls = <<>>
    /\ lastFail = <<>>
    /\ results = <<>>
    /\ classifications = <<>>
    /\ batchErr = ""
    /\ RIdle
    /\ OIdle
    /\ XIdle
    /\ UIdle

\* the context of the task is cancelled
Cancel ==
    /\ ~cancelled
    /\ phase # "merged"
    /\ cancelled' = TRUE
    /\ UNCHANGED << dvars, rvars, ovars, uvars, cvars, gvars, zvars >>

\* CreateChatCompletion with a cancelled context: the client returns the
\* context's error, and processChunk counts it like any other call error
DispatchCancelled(c) ==
    /\ phase = "dispatching"
    /\ pc[c] = "loop"
    /\ CanAttempt(retries[c])
    /\ ~RequestSent(cancelled)
    /\ lastFail' = [lastFail EXCEPT ![c] = "cancelled"]
    /\ retries' = [retries EXCEPT ![c] = @ + 1]
    /\ pc' = [pc EXCEPT ![c] = CallErrorNext]
    /\ UNCHANGED << input, records, chunks, phase, sem, calls,
                    results, classifications, batchErr, notDvars >>

\* a chunk that has reached DONE is recorded in the checkpoint of the batch
\* once its classifications are written
RecordChunk(c) ==
    /\ c \in ChunkIds
    /\ pc[c] = "exited"
    /\ results[c].Success
    /\ \A k \in 1..Len(chunks[c]) :
          \E i \in saved : classifications[i].row_index = chunks[c][k].row_index
    /\ (c - 1) \notin Range(cp.ProcessedChunks)
    /\ cp' = SaveProgress(cp, c - 1)
    /\ UNCHANGED << dvars, style, work, pending, locks, table, nextId, rpc, rem,
                    snapshot, passEnq, passDup, passes, crashes, crashSnap,
                    taskCount, ovars, notDRO >>

KNext ==
    \/ ClassifyBatchStart
    \/ \E c \in ChunkIds : Acquire(c)
    \/ \E c \in ChunkIds : Exhausted(c)
    \/ \E c \in ChunkIds : Dispatch(c)
    \/ \E c \in ChunkIds : DispatchCancelled(c)
    \/ \E c \in ChunkIds : CallFails(c)
    \/ \E c \in ChunkIds : Backoff(c)
    \/ \E c \in ChunkIds : RespondSame(c)
    \/ \E c \in ChunkIds : RecordChunk(c)
    \/ Merge
    \/ \E i \in DOMAIN classifications : SaveRow(i)
    \/ Cancel

SpecCancel == KInit /\ [][KNext]_vars


NothingSent == \A c \in DOMAIN calls : calls[c] = 0

C16_CancelledBeforeDispatch ==
    /\ cancelled
    /\ phase = "merged"
    /\ Len(chunks) = 2
    /\ NothingSent


(***************************************************************************)
(* SpecChunks: GenerateChunks of the LLM input generator, one loop         *)
(* iteration per step.                                                     *)
(***************************************************************************)
CleanField == "cleanLineDescription"

\* a record of the generator: its row index and whether its data holds the
\* clean field
GenRecordsOf(S, withData) ==
    [i \in 1..Cardinality(S) |->
        [RowIndex |-> SeqOfSet(S)[i], hasClean |-> SeqOfSet(S)[i] \in withData]]

DetectCleanFields(record) == IF record.hasClean THEN <<CleanField>> ELSE <<>>

\* the records with their clean data; a record with no data is skipped
RECURSIVE CleanRecords(_)
CleanRecords(recs) ==
    IF recs = <<>> THEN <<>>
    ELSE IF recs[1].hasClean
         THEN <<[RowIndex |-> recs[1].RowIndex]>> \o CleanRecords(Tail(recs))
         ELSE CleanRecords(Tail(recs))

\* GenerateInput; uuid is the value uuid.New() returns
GenerateInput(recs, config, uuid) ==
    IF Len(recs) = 0 THEN [err |-> "no records provided"]
    ELSE LET fieldsToInclude ==
                 IF Len(config.FieldsToInclude) = 0
                 THEN DetectCleanFields(recs[1])
                 ELSE config.FieldsToInclude
         IN  IF Len(fieldsToInclude) = 0
             THEN [err |-> "no clean fields detected"]
             ELSE [err |-> "",
                   Metadata |-> [BatchID |-> uuid,
                                 TotalRecords |-> Len(CleanRecords(recs)),
                                 ChunkNumber |-> 0,
                                 TotalChunks |-> 0,
                                 Fields |-> fieldsToInclude],
                   Records |-> CleanRecords(recs)]

\* (mutation of TotalChunksOf: the division rounds down)
TotalChunksRoundedDown(totalRecords, chunkSize) == totalRecords \div chunkSize

\* totalChunks := (totalRecords + config.ChunkSize - 1) / config.ChunkSize
TotalChunksOf(totalRecords, chunkSize) ==
    (totalRecords + chunkSize - 1) \div chunkSize

GInit ==
    /\ DIdle
    /\ RIdle
    /\ OIdle
    /\ UIdle
    /\ CIdle
    /\ KIdle
    /\ ZIdle
    /\ \E S \in SUBSET (0..MaxRow) : \E withData \in SUBSET S :
          grecords = GenRecordsOf(S, withData)
    /\ \E size \in 0..ChunkSize, fields \in {<<>>, <<CleanField>>} :
          gconfig = [ChunkSize |-> size, FieldsToInclude |-> fields]
    /\ gbatch = 0
    /\ gpc = "new"
    /\ gi = 0
    /\ gchunks = <<>>
    /\ gerr = ""
    /\ nextUuid = 1

\* the chunk size is checked
GenerateChunksStart ==
    /\ gpc = "new"
    /\ IF gconfig.ChunkSize <= 0
       THEN /\ gerr' = "chunk_size must be greater than 0"
            /\ gpc' = "returned"
       ELSE /\ gpc' = "loop"
            /\ UNCHANGED gerr
    /\ UNCHANGED << grecords, gconfig, gbatch, gi, gchunks, nextUuid, notGvars >>

\* one iteration of the loop: GenerateInput of records[start:end], then the
\* chunk number and the chunk count are set
GenerateChunksIter ==
    /\ gpc = "loop"
    /\ gi < TotalChunksOf(Len(grecords), gconfig.ChunkSize)
    /\ LET start == gi * gconfig.ChunkSize
           end == Min(start + gconfig.ChunkSize, Len(grecords))
           in == GenerateInput(SubSeq(grecords, start + 1, end), gconfig, nextUuid)
       IN  IF in.err # ""
           THEN /\ gerr' = "failed to generate chunk"
                /\ gchunks' = <<>>
                /\ gpc' = "returned"
                /\ UNCHANGED << gi, nextUuid >>
           ELSE /\ gchunks' = Append(gchunks,
                      [in EXCEPT !.Metadata.ChunkNumber = gi + 1,
                                 !.Metadata.TotalChunks =
                                     TotalChunksOf(Len(grecords), gconfig.ChunkSize)])
                /\ gi' = gi + 1
                /\ nextUuid' = nextUuid + 1
                /\ UNCHANGED << gerr, gpc >>
    /\ UNCHANGED << grecords, gconfig, gbatch, notGvars >>

\* the loop has ended: return chunks, nil
GenerateChunksReturn ==
    /\ gpc = "loop"
    /\ gi >= TotalChunksOf(Len(grecords), gconfig.ChunkSize)
    /\ gpc' = "returned"
    /\ UNCHANGED << grecords, gconfig, gbatch, gi, gchunks, gerr, nextUuid, notGvars >>

GNext ==
    \/ GenerateChunksStart
    \/ GenerateChunksIter
    \/ GenerateChunksReturn

SpecChunks == GInit /\ [][GNext]_vars

\* ceil(n / N) for N > 0, by its definition
CeilDiv(n, N) == CHOOSE k \in 0..n : k * N >= n /\ (k = 0 \/ (k - 1) * N < n)

ChunksReturned == gpc = "returned" /\ gerr = ""

AllHaveClean == \A i \in 1..Len(grecords) : grecords[i].hasClean

\* C19: for n records and chunk size N > 0, GenerateChunks returns
\* ceil(n/N) chunks; chunk k holds, in input order, the records of input
\* positions (k-1)N+1 .. min(kN, n), at most N of them, and is labelled
\* with chunk number k and with the chunk count ceil(n/N).  Records that
\* carry their clean field are always chunked.
C19_ChunkCountAndLabels ==
    /\ ChunksReturned =>
          LET n == Len(grecords)
              N == gconfig.ChunkSize
          IN  /\ N > 0
              /\ Len(gchunks) = CeilDiv(n, N)
              /\ \A k \in 1..Len(gchunks) :
                    /\ Len(gchunks[k].Records) <= N
                    /\ gchunks[k].Metadata.ChunkNumber = k
                    /\ gchunks[k].Metadata.TotalChunks = CeilDiv(n, N)
                    /\ gchunks[k].Records =
                          CleanRecords(SubSeq(grecords, (k - 1) * N + 1, Min(k * N, n)))
    /\ (gpc = "returned" /\ gconfig.ChunkSize > 0 /\ AllHaveClean) =>
          /\ gerr = ""
          /\ \A k \in 1..Len(gchunks) :
                Len(gchunks[k].Records) =
                    Min(k * gconfig.ChunkSize, Len(grecords))
                        - (k - 1) * gconfig.ChunkSize

\* three records in chunks of two: a chunk of two and a chunk of one
C19_Witness ==
    /\ ChunksReturned
    /\ AllHaveClean
    /\ Len(grecords) = 3
    /\ gconfig.ChunkSize = 2
    /\ Len(gchunks) = 2
    /\ Len(gchunks[1].Records) = 2
    /\ Len(gchunks[2].Records) = 1
    /\ gchunks[2].Metadata.ChunkNumber = 2

\* C20: every chunk GenerateChunks returns carries the id of the batch whose
\* records are chunked.
C20_ChunksCarryBatchId ==
    ChunksReturned =>
        \A k \in 1..Len(gchunks) : gchunks[k].Metadata.BatchID = gbatch

\* the positions (chunk, record) at which row index r stands in the chunks
ChunkPositions(r) ==
    {<<k, j>> \in (1..Len(gchunks)) \X (1..ChunkSize) :
        j <= Len(gchunks[k].Records) /\ gchunks[k].Records[j].RowIndex = r}

\* C26: when GenerateChunks returns its chunks, every record it was given
\* stands in exactly one chunk with its row index, and the chunks hold no
\* other row index.
C26_EveryRecordInOneChunk ==
    ChunksReturned =>
        /\ \A i \in 1..Len(grecords) :
              Cardinality(ChunkPositions(grecords[i].RowIndex)) = 1
        /\ \A k \in 1..Len(gchunks) : \A j \in 1..Len(gchunks[k].Records) :
              \E i \in 1..Len(grecords) :
                  grecords[i].RowIndex = gchunks[k].Records[j].RowIndex

\* the chunk numbers GenerateChunks has set in the metadata of its chunks
BuilderIndices == {gchunks[k].Metadata.ChunkNumber : k \in 1..Len(gchunks)}

\* C30: the chunk numbers GenerateChunks assigns are the indices
\* 0..total_chunks-1 over which calculateRemainingChunks runs: whichever of
\* the chunks are recorded in the checkpoint of the batch, every chunk is
\* among the processed chunks or among the remaining ones.
C30_BuilderIndicesEnumerated ==
    ChunksReturned =>
        \A P \in SUBSET BuilderIndices :
            LET c0 == [TotalChunks |-> Len(gchunks), ProcessedChunks |-> SeqOfSet(P)]
            IN  /\ BuilderIndices = 0..(c0.TotalChunks - 1)
                /\ \A n \in BuilderIndices :
                      n \in P \/ n \in Range(calculateRemainingChunks(c0))


(***************************************************************************)
(* SpecValidate: the chunks GenerateChunks returns are validated with      *)
(* ValidateInput, one chunk per step, and a chunk that passes is handed to *)
(* the dispatcher.  The records may repeat a row index.                    *)
(***************************************************************************)
ValidateMaxLen == 3
ValidateRowIndices == 0..1

\* the records of row indices rs; the positions in W carry the clean field
GenRecordsAt(rs, W) ==
    [i \in 1..Len(rs) |-> [RowIndex |-> rs[i], hasClean |-> i \in W]]

\* the loop of ValidateInput over input.Records with the map rowIndices; a
\* CleanRecord of GenerateInput always has data
RECURSIVE ValidateRecordsNoDuplicateCheck(_, _)
ValidateRecordsNoDuplicateCheck(recs, rowIndices) == ""

RECURSIVE ValidateRecords(_, _)
ValidateRecords(recs, rowIndices) ==
    IF recs = <<>> THEN ""
    ELSE IF recs[1].RowIndex \in rowIndices THEN "duplicate row_index"
    ELSE ValidateRecords(Tail(recs), rowIndices \cup {recs[1].RowIndex})

ValidateInput(in) ==
    IF Len(in.Records) = 0 THEN "no records in input"
    ELSE IF Len(in.Metadata.Fields) = 0 THEN "no fields specified in metadata"
    ELSE ValidateRecords(in.Records, {})

VInit ==
    /\ DIdle
    /\ RIdle
    /\ OIdle
    /\ UIdle
    /\ CIdle
    /\ KIdle
    /\ FIdle
    /\ SIdle
    /\ HIdle
    /\ VIdle
    /\ \E n \in 0..ValidateMaxLen : \E rs \in [1..n -> ValidateRowIndices] :
          \E W \in SUBSET (1..n) : grecords = GenRecordsAt(rs, W)
    /\ \E size \in 0..ChunkSize, fields \in {<<>>, <<CleanField>>} :
          gconfig = [ChunkSize |-> size, FieldsToInclude |-> fields]
    /\ gbatch = 0
    /\ gpc = "new"
    /\ gi = 0
    /\ gchunks = <<>>
    /\ gerr = ""
    /\ nextUuid = 1

\* the next chunk is validated: it is handed to the dispatcher if
\* ValidateInput returns nil and rejected with the error otherwise
ValidateChunk ==
    /\ gpc = "returned"
    /\ gerr = ""
    /\ vi < Len(gchunks)
    /\ LET chunk == gchunks[vi + 1]
           err == ValidateInput(chunk)
       IN  IF err = ""
           THEN /\ handed' = Append(handed, chunk)
                /\ UNCHANGED rejected
           ELSE /\ rejected' = Append(rejected, [chunk |-> chunk, err |-> err])
                /\ UNCHANGED handed
    /\ vi' = vi + 1
    /\ UNCHANGED notVvars

VNext ==
    \/ GenerateChunksStart
    \/ GenerateChunksIter
    \/ GenerateChunksReturn
    \/ ValidateChunk

SpecValidate == VInit /\ [][VNext]_vars

\* two records of the chunk have the same row index
DuplicateRowIndex(recs) ==
    \E i, j \in 1..Len(recs) : i < j /\ recs[i].RowIndex = recs[j].RowIndex

RefineryMaxWords == 2

Digits == {"1", "3", "6"}
Letters == {"A", "P", "R", "T", "V"}
Vowels == {"A"}

\* the words tried: TV, 36R (a mixed business term such as 36ROJBRINDIS),
\* P1, A1, 11, AT, TVT, ATA
RefineryWords ==
    { <<"T", "V">>, <<"3", "6", "R">>, <<"P", "1">>, <<"A", "1">>,
      <<"1", "1">>, <<"A", "T">>, <<"T", "V", "T">>, <<"A", "T", "A">> }

\* the default preserve set (its words among those tried), and a custom
\* to_keep that names a project code and a number
RefineryKeepSets ==
    { { <<"T", "V">>, <<"3", "6", "R">> },
      { <<"T", "V">>, <<"P", "1">>, <<"1", "1">> } }

isAlphanumeric(word) ==
    /\ \E i \in 1..Len(word) : word[i] \in Letters
    /\ \E i \in 1..Len(word) : word[i] \in Digits

isNumeric(word) ==
    /\ \A i \in 1..Len(word) : word[i] \in Digits
    /\ Len(word) > 0

hasVowel(word) == \E i \in 1..Len(word) : word[i] \in Vowels

\* the word matches \bP\d+(-\d+)?\b as a whole; the separators are gone
\* when the step runs, so the optional part never matches
IsPeriodCode(word) ==
    /\ Len(word) >= 2
    /\ word[1] = "P"
    /\ \A i \in 2..Len(word) : word[i] \in Digits

RemovePeriodCodes(text, config) ==
    LET keep(word) == ~IsPeriodCode(word)
    IN  SelectSeq(text, keep)

RemoveAlphanumericWords(text, config) ==
    LET keep(word) == ~isAlphanumeric(word) \/ word \in config.ToKeep
    IN  SelectSeq(text, keep)

RemoveAllNumbersWordsExcept(text, config) ==
    LET keep(word) == ~isNumeric(word) \/ word \in config.ToKeep
    IN  SelectSeq(text, keep)

RemoveWordsByMinLen(text, config) ==
    LET keep(word) == Len(word) >= config.MinLen \/ word \in config.ToKeep
    IN  SelectSeq(text, keep)

RemoveAllConsonantsWords(text, config) ==
    LET keep(word) == hasVowel(word) \/ word \in config.ToKeep
    IN  SelectSeq(text, keep)

FInit ==
    /\ DIdle
    /\ RIdle
    /\ OIdle
    /\ UIdle
    /\ CIdle
    /\ KIdle
    /\ GIdle
    /\ VIdle
    /\ SIdle
    /\ HIdle
    /\ \E keep \in RefineryKeepSets : rconfig = [ToKeep |-> keep, MinLen |-> 3]
    /\ \E n \in 0..RefineryMaxWords : rin \in [1..n -> RefineryWords]
    /\ rtext = rin
    /\ rstep = 0

RemovePeriodCodesStep ==
    /\ rstep = 0
    /\ rtext' = RemovePeriodCodes(rtext, rconfig)
    /\ rstep' = 1
    /\ UNCHANGED << rconfig, rin, notFvars >>

RemoveAlphanumericWordsStep ==
    /\ rstep = 1
    /\ rtext' = RemoveAlphanumericWords(rtext, rconfig)
    /\ rstep' = 2
    /\ UNCHANGED << rconfig, rin, notFvars >>

RemoveAllNumbersWordsExceptStep ==
    /\ rstep = 2
    /\ rtext' = RemoveAllNumbersWordsExcept(rtext, rconfig)
    /\ rstep' = 3
    /\ UNCHANGED << rconfig, rin, notFvars >>

RemoveWordsByMinLenStep ==
    /\ rstep = 3
    /\ rtext' = RemoveWordsByMinLen(rtext, rconfig)
    /\ rstep' = 4
    /\ UNCHANGED << rconfig, rin, notFvars >>

RemoveAllConsonantsWordsStep ==
    /\ rstep = 4
    /\ rtext' = RemoveAllConsonantsWords(rtext, rconfig)
    /\ rstep' = 5
    /\ UNCHANGED << rconfig, rin, notFvars >>

FNext ==
    \/ RemovePeriodCodesStep
    \/ RemoveAlphanumericWordsStep
    \/ RemoveAllNumbersWordsExceptStep
    \/ RemoveWordsByMinLenStep
    \/ RemoveAllConsonantsWordsStep

SpecRefinery == FInit /\ [][FNext]_vars

\* the words of the text that belong to the preserve set, in order
Preserved(text) ==
    LET keep(word) == word \in rconfig.ToKeep
    IN  SelectSeq(text, keep)

\* C22: none of the five steps that follow RemoveWordsFromList removes a
\* word of the preserve set: the preserved words of the text are the same
\* after every step.
C22_PreservedWordsBypass == Preserved(rtext) = Preserved(rin)


(***************************************************************************)
(* SpecSampling: iterations of validation sampling over the results of one *)
(* upload.  Scores are in tenths; a random sample of n rows is any subset  *)
(* of n rows.                                                              *)
(***************************************************************************)
SampleRows == 4
SampleIterations == 3
SampleTarget == 2
ConfidenceThreshold == 7

SampleCategories == {"Pop", "TV"}

\* df.sample(n): any n rows of df; pandas raises when df has fewer than n
SampleOf(df, n) == {S \in SUBSET df : Cardinality(S) = n}

\* generate_stratified_sample over the rows df: the samples it can return
generate_stratified_sample(df, target_sample_size) ==
    LET group(c) == {r \in df : sresults[r].category = c}
        n(c) == (target_sample_size * Cardinality(group(c))) \div Cardinality(df)
        cats == {c \in SampleCategories : group(c) # {}}
    IN  IF df = {} THEN {}
        ELSE { UNION {pick[c] : c \in cats} :
                   pick \in { p \in [cats -> SUBSET df] :
                                 \A c \in cats :
                                     p[c] \in SampleOf(group(c),
                                         Min(n(c), Cardinality(group(c)))) } }

\* (mutation of get_all_validated_indices: only the latest finished
\* iteration is read)
get_latest_validated_indices(hist) ==
    IF Len(hist) <= 1 THEN {} ELSE hist[Len(hist) - 1]

\* get_all_validated_indices: the original_index of every validation of
\* every iteration
get_all_validated_indices(hist) ==
    UNION {hist[i] : i \in 1..Len(hist)}

\* generate_confidence_filtered_sample over the rows df: the samples it can
\* return; none when the rows at or above the threshold do not suffice
generate_confidence_filtered_sample(df, confidence_threshold, target_sample_size) ==
    LET low_conf == {r \in df : sresults[r].score < confidence_threshold}
        high_conf == {r \in df : sresults[r].score >= confidence_threshold}
    IN  IF Cardinality(low_conf) >= target_sample_size
        THEN SampleOf(low_conf, target_sample_size)
        ELSE {low_conf \cup S :
                 S \in SampleOf(high_conf, target_sample_size - Cardinality(low_conf))}

\* the rows the strategy samples from: the results less the exclude-set
Candidates(exclude) == DOMAIN sresults \ exclude

SInit ==
    /\ DIdle
    /\ RIdle
    /\ OIdle
    /\ UIdle
    /\ CIdle
    /\ KIdle
    /\ GIdle
    /\ VIdle
    /\ FIdle
    /\ HIdle
    /\ \E pop \in {k..(SampleRows - 1) : k \in 0..SampleRows} :
          \E low \in {0..k : k \in -1..(SampleRows - 1)} :
              sresults = [r \in 0..(SampleRows - 1) |->
                             [category |-> IF r \in pop THEN "Pop" ELSE "TV",
                              score |-> IF r \in low THEN 5 ELSE 9]]
    /\ history = <<>>
    /\ sexclude = {}
    /\ ssample = {}
    /\ serr = ""
    /\ spc = "idle"

\* POST /api/validation/iteration/start
StartIteration ==
    /\ spc \in {"idle", "validated"}
    /\ Len(history) < SampleIterations
    /\ history' = Append(history, {})
    /\ spc' = "started"
    /\ ssample' = {}
    /\ serr' = ""
    /\ UNCHANGED << sresults, sexclude, notSvars >>

\* POST /api/validation/sample: the tracker supplies the exclude-set and the
\* strategy samples from the rows that are left
GenerateSample(strategy) ==
    /\ spc = "started"
    /\ LET exclude == get_all_validated_indices(history)
           samples ==
               IF strategy = "stratified"
               THEN generate_stratified_sample(Candidates(exclude), SampleTarget)
               ELSE generate_confidence_filtered_sample(
                        Candidates(exclude), ConfidenceThreshold, SampleTarget)
       IN  /\ sexclude' = exclude
           /\ IF samples = {}
              THEN /\ serr' = "cannot sample"
                   /\ ssample' = {}
              ELSE /\ serr' = ""
                   /\ ssample' \in samples
    /\ spc' = "sampled"
    /\ UNCHANGED << sresults, history, notSvars >>

\* POST /api/validation/submit: rows of the sample are validated
SubmitValidations(rows) ==
    /\ spc = "sampled"
    /\ rows \subseteq ssample
    /\ history' = [history EXCEPT ![Len(history)] = rows]
    /\ spc' = "validated"
    /\ UNCHANGED << sresults, sexclude, ssample, serr, notSvars >>

SNext ==
    \/ StartIteration
    \/ \E strategy \in {"stratified", "confidence"} : GenerateSample(strategy)
    \/ \E rows \in SUBSET (0..(SampleRows - 1)) : SubmitValidations(rows)

SpecSampling == SInit /\ [][SNext]_vars

\* the rows validated in the iterations before the current one
ValidatedBefore ==
    UNION {history[i] : i \in 1..(Len(history) - 1)}

PoolWorkerIds == {"worker", "worker2"}
PoolWorkers == {Owner} \cup PoolWorkerIds

WInit ==
    /\ DIdle
    /\ OIdle
    /\ XIdle
    /\ UIdle
    /\ style = "echo"
    /\ cp = [TotalChunks |-> TotalChunks, ProcessedChunks |-> <<>>,
             stale |-> FALSE, recovered |-> FALSE]
    /\ work = [w \in PoolWorkers |-> IdleWorker]
    /\ pending = {}
    /\ locks = {}
    /\ table = <<>>
    /\ nextId = 1
    /\ rpc = "idle"
    /\ rem = <<>>
    /\ snapshot = NoCheckpoint
    /\ passEnq = {}
    /\ passDup = {}
    /\ passes = 0
    /\ crashes = 0
    /\ crashSnap = NoChunk
    /\ taskCount = [c \in 0..(TotalChunks - 1) |-> 0]

WNext ==
    \/ \E c \in 0..(TotalChunks - 1) : OwnerStart(c)
    \/ \E w \in PoolWorkers, c \in 0..(TotalChunks - 1) : Claim(w, c)
    \/ \E w \in PoolWorkers : PersistRow(w)
    \/ \E w \in PoolWorkers : SaveProgressStep(w)
    \/ \E w \in PoolWorkers : Ack(w)
    \/ OwnerCrash
    \/ HeartbeatExpires
    \/ RecoverStart
    \/ RecoverEnqueue
    \/ RecoverFinish

SpecWriters == WInit /\ [][WNext]_vars

\* the workers that are about to run SaveProgress on the checkpoint of the
\* batch
Saving == {w \in DOMAIN work : work[w].step = "save"}

\* worker w runs SaveProgress in this step
Writes(w) ==
    /\ work[w].step = "save"
    /\ work'[w].step # "save"
    /\ cp' # cp

\* C24: the checkpoint of a batch has a single writer: never are two workers
\* writing it at the same time, and once recovery has stamped the checkpoint
\* as recovered the worker that owned it writes it no more.
C24_SingleWriter ==
    /\ [](Cardinality(Saving) <= 1)
    /\ [][cp.recovered => ~Writes(Owner)]_vars


(***************************************************************************)
(* SpecHeartbeat: the checkpoint of a batch whose owner processes it chunk *)
(* by chunk, the heartbeat ticker of the owner's worker, and the scan for  *)
(* stale checkpoints.  Time passes in ticks, TicksPerBeat to a heartbeat   *)
(* interval.                                                               *)
(***************************************************************************)
\* time.NewTicker(30 * time.Second)
HeartbeatSeconds == 30
\* staleTime := time.Now().Add(-5 * time.Minute)
StaleSeconds == 300
TicksPerBeat == 2

HeartbeatTicks == TicksPerBeat
StaleTicks == (StaleSeconds \div HeartbeatSeconds) * TicksPerBeat

\* ages are counted up to one tick past the stale threshold
AgeCap == StaleTicks + 1
Older(age) == IF age < AgeCap THEN age + 1 ELSE age

\* (mutation of HeartbeatDue: the ticker has the period of the stale
\* threshold and a heartbeat interval more)
HeartbeatDueLate(age) == age >= StaleTicks + HeartbeatTicks

\* case <-ticker.C: the ticker fires when a heartbeat interval has passed
HeartbeatDue(age) == age >= HeartbeatTicks

\* GetStaleCheckpoints(ctx, staleTime): last_heartbeat before now - 5 minutes
IsStale(age) == age > StaleTicks

HInit ==
    /\ DIdle
    /\ RIdle
    /\ OIdle
    /\ UIdle
    /\ CIdle
    /\ KIdle
    /\ GIdle
    /\ VIdle
    /\ FIdle
    /\ SIdle
    /\ hAlive = TRUE
    /\ hbAge = 0
    /\ tickAge \in 0..(HeartbeatTicks - 1)
    /\ chunkAge = 0
    /\ hDone = 0
    /\ hScan = NoScan

HBusy == hDone < TotalChunks

\* one tick of time passes; the ticker of a live worker is not overrun
HTick ==
    /\ hAlive => ~HeartbeatDue(tickAge)
    /\ hbAge' = Older(hbAge)
    /\ tickAge' = IF hAlive THEN tickAge + 1 ELSE tickAge
    /\ chunkAge' = IF hAlive /\ HBusy THEN Older(chunkAge) ELSE chunkAge
    /\ UNCHANGED << hAlive, hDone, hScan, notHvars >>

\* startHeartbeat: the ticker fires and updateHeartbeats refreshes
\* last_heartbeat of the worker's checkpoint
Heartbeat ==
    /\ hAlive
    /\ HeartbeatDue(tickAge)
    /\ tickAge' = 0
    /\ hbAge' = 0
    /\ UNCHANGED << hAlive, chunkAge, hDone, hScan, notHvars >>

\* the chunk in progress ends: SaveProgress appends it and sets
\* LastHeartbeat = time.Now()
ChunkDone ==
    /\ hAlive
    /\ HBusy
    /\ hDone' = hDone + 1
    /\ hbAge' = 0
    /\ chunkAge' = 0
    /\ UNCHANGED << hAlive, tickAge, hScan, notHvars >>

\* RecoverIncompleteWork looks at the checkpoint of the unfinished batch
ScanStale ==
    /\ HBusy
    /\ hScan' = [scanned |-> TRUE, stale |-> IsStale(hbAge), chunkAge |-> chunkAge]
    /\ UNCHANGED << hAlive, hbAge, tickAge, chunkAge, hDone, notHvars >>

\* the worker process of the owner dies
HCrash ==
    /\ hAlive
    /\ HBusy
    /\ hAlive' = FALSE
    /\ UNCHANGED << hbAge, tickAge, chunkAge, hDone, hScan, notHvars >>

HNext ==
    \/ HTick
    \/ Heartbeat
    \/ ChunkDone
    \/ ScanStale
    \/ HCrash

SpecHeartbeat == HInit /\ [][HNext]_vars

====
